---- MODULE Spec2Model ----
(***************************************************************************)
(* Model of src/parallel.py: the orchestrator main() that trains a model   *)
(* and, at every epoch boundary, collects the previous batch of remote     *)
(* rollouts and dispatches a new one to a pool of GymEnvironment actors.   *)
(*                                                                         *)
(* The orchestrator is one sequential process (pc).  Every actor is a      *)
(* process of its own that runs the calls of its mailbox one at a time, in *)
(* submission order.  The two sides meet only in .remote() (a send that    *)
(* never blocks) and ray.get() (a receive that blocks).                    *)
(***************************************************************************)
EXTENDS Integers, Sequences, FiniteSets, TLC

(***************************************************************************)
(* Bounds of the model.                                                    *)
(***************************************************************************)
MaxEpisodes == 3      \* largest --epochs (max_episodes) tried
MaxWork == 8          \* largest remotes * rollouts * max_episodes tried
MaxWinIters == 202    \* iterations of the window specification
MaxSchedIters == 32   \* iterations of the scheduler specification

(***************************************************************************)
(* Program constants.                                                      *)
(***************************************************************************)
MinWindow == 200      \* deque(maxlen=max(200, ...))
StepSize == 6         \* StepLR(model.optimizer, 6, gamma=0.1)
LrFloorExp == 7       \* max(param_group['lr'], 1e-7): the rate is 10^-lrExp
LrateExp == 3         \* --lr default 1e-3

(***************************************************************************)
(* The inputs tried.                                                       *)
(***************************************************************************)
Registry == {"dqn", "ddqn", "ddpg", "supervised", "mcre"}
ModelChoices == {"ddqn", "foo"}     \* --model
RemotesChoices == {1, 2}            \* --remotes
RolloutsChoices == {1, 2}           \* --rollouts
MaxStepsChoices == {2}              \* --max-steps
ExploreChoices == {0, 5}            \* --explore, in tenths
BufferSizes == {2, 4}               \* --buffer-size
BatchSizes == {2}                   \* --batch-size
UpdateIters == {2}                  \* --update
SeedDraws == {0, 1}                 \* values np.random.randint(1234567890) may draw

Max(a, b) == IF a >= b THEN a ELSE b
\* (variant: the first of the two, whichever is smaller)
FirstOf(a, b) == a
Min(a, b) == IF a <= b THEN a ELSE b
MaxOf(S) == CHOOSE n \in S : \A m \in S : m <= n

VARIABLES
    args,            \* the parsed command line (never changes)
    pc,              \* where main() is
    error,           \* why main() ended with an exception ("none" if it has not)
    envs,            \* the list envs of actor handles (actor numbers)
    model,           \* the trainer's weights: [net, target]
    iters_per_epoch,
    episode,         \* the loop variable of the training loop
    results,         \* the list results of pending object refs
    step_queue, reward_queue, loss_queue,
    steps, rewards,  \* the lists of the final evaluation
    checkpoints,     \* the checkpoints saved: <<label, weights>>
    sched,           \* the scheduler and the optimizer's rate: [last_epoch, lrExp]
    objects,         \* the object store: one record per call of rollout.remote
    worker,          \* the actors
    foldLog,         \* history: what every successful collect got
    inserted         \* history: every sample ever put into each window

vars == <<args, pc, error, envs, model, iters_per_epoch, episode, results,
          step_queue, reward_queue, loss_queue, steps, rewards, checkpoints,
          sched, objects, worker, foldLog, inserted>>

\* the state of main() and its history
orchVars == <<pc, error, envs, model, iters_per_epoch, episode, results,
              step_queue, reward_queue, loss_queue, steps, rewards,
              checkpoints, sched, foldLog, inserted>>

Workers == 1..MaxOf(RemotesChoices)

Args == {a \in [model: ModelChoices, remotes: RemotesChoices,
                rollouts: RolloutsChoices, explore: ExploreChoices,
                max_episodes: 1..MaxEpisodes, buffer_size: BufferSizes,
                batch_size: BatchSizes, update_iter: UpdateIters,
                max_steps: MaxStepsChoices, is_test: BOOLEAN] :
            a.remotes * a.rollouts * a.max_episodes <= MaxWork}

NewWorker == [wpc |-> "none", seed |-> -1, weights |-> <<>>, mailbox |-> <<>>,
              cur |-> 0, step |-> 0, steps |-> <<>>, rewards |-> <<>>]

Start ==
    /\ error = "none"
    /\ envs = <<>>
    /\ model = [net |-> 0, target |-> 0]
    /\ iters_per_epoch = 0
    /\ episode = 0
    /\ results = <<>>
    /\ step_queue = <<>>
    /\ reward_queue = <<>>
    /\ loss_queue = <<>>
    /\ steps = <<>>
    /\ rewards = <<>>
    /\ checkpoints = <<>>
    /\ sched = [last_epoch |-> 0, lrExp |-> LrateExp]
    /\ objects = <<>>
    /\ worker = [i \in Workers |-> NewWorker]
    /\ foldLog = <<>>
    /\ inserted = [steps |-> <<>>, rewards |-> <<>>, loss |-> <<>>]

Init ==
    /\ args \in Args
    /\ pc = "init"
    /\ Start

(***************************************************************************)
(* collections.deque with a maxlen: append drops the oldest entry of a     *)
(* full deque, extend appends the entries one by one.                      *)
(***************************************************************************)
\* (variant: a full deque that refuses the new entry)
DequeAppendDropNew(q, x, cap) == IF Len(q) >= cap THEN q ELSE Append(q, x)

DequeAppend(q, x, cap) ==
    IF cap = 0 THEN q
    ELSE IF Len(q) >= cap THEN Append(Tail(q), x)
    ELSE Append(q, x)

\* (Len(q) >= 0 is true of every q: it makes the evaluation of q eager, so
\* that a long extend does not nest as deep as it is long)
RECURSIVE DequeExtend(_, _, _)
DequeExtend(q, xs, cap) ==
    IF xs = <<>> \/ Len(q) < 0 THEN q
    ELSE DequeExtend(DequeAppend(q, Head(xs), cap), Tail(xs), cap)

\* step_queue.maxlen; reward_queue and loss_queue take the same maxlen
maxlen == Max(MinWindow, args.rollouts * args.remotes)

(***************************************************************************)
(* make_model: the registry of model names.  TRUE when the name is known,  *)
(* FALSE when make_model raises NotImplementedError.                       *)
(***************************************************************************)
\* (variant: the name is looked up only when a model is created)
make_model_lazy(name) == TRUE

make_model(name) == name \in Registry

\* model.get_weights(): a copy of the trainer's current weights
get_weights(m) == m

(***************************************************************************)
(* The object store.  ray.get(refs) returns the values of refs in the      *)
(* order of refs and raises when a task of refs raised.  It returns when   *)
(* every task has finished; depending on the version of the library it     *)
(* raises as soon as one failed task is known or only when all finished.   *)
(***************************************************************************)
AllFinished(refs) == \A i \in 1..Len(refs) : objects[refs[i]].status # "pending"

\* (variant: a get that skips the tasks that raised)
AnyFailedIgnored(refs) == FALSE

AnyFailed(refs) == \E i \in 1..Len(refs) : objects[refs[i]].status = "failed"

\* (variant: a get that returns what the store holds, finished or not)
RayGetNoWait(refs) == TRUE

RayGetReady(refs) == AllFinished(refs) \/ AnyFailed(refs)

\* (variant: a get that returns the values in the opposite order)
RayGetReversed(refs) ==
    [i \in 1..Len(refs) |->
        <<objects[refs[Len(refs) + 1 - i]].steps,
          objects[refs[Len(refs) + 1 - i]].rewards>>]

RayGet(refs) ==
    [i \in 1..Len(refs) |-> <<objects[refs[i]].steps, objects[refs[i]].rewards>>]

\* The driver holds the refs of the list results and no others: when the
\* list is replaced the store drops the values of the refs it held, and a
\* task that ends with no ref left stores no value.
Held(ref) == \E i \in 1..Len(results) : results[i] = ref

Released(refs) ==
    [r \in 1..Len(objects) |->
        IF \E i \in 1..Len(refs) : refs[i] = r
        THEN [objects[r] EXCEPT !.steps = <<>>, !.rewards = <<>>]
        ELSE objects[r]]

\* the values of one column (1: steps, 2: rewards) of outs, in order
RECURSIVE Column(_, _)
Column(outs, idx) ==
    IF outs = <<>> THEN <<>> ELSE Head(outs)[idx] \o Column(Tail(outs), idx)

\* (variant: the devices taken last to first)
ExtendAllBackwards(q, outs, idx, cap) ==
    DequeExtend(q, Column([i \in 1..Len(outs) |-> outs[Len(outs) + 1 - i]], idx), cap)

\* for device in outs: q.extend(device[idx])
RECURSIVE ExtendAll(_, _, _, _)
ExtendAll(q, outs, idx, cap) ==
    IF outs = <<>> \/ Len(q) < 0 THEN q
    ELSE ExtendAll(DequeExtend(q, Head(outs)[idx], cap), Tail(outs), idx, cap)

\* for out in outs: l.extend(out[idx])   (plain lists)
RECURSIVE ListExtendAll(_, _, _)
ListExtendAll(l, outs, idx) ==
    IF outs = <<>> THEN l
    ELSE ListExtendAll(l \o Head(outs)[idx], Tail(outs), idx)

(***************************************************************************)
(* env.rollout.remote(w, n, p): a new object ref, and the call in the      *)
(* mailbox of actor i.  tag is the epoch label of the boundary that issues *)
(* the call, -1 for the final evaluation.                                  *)
(***************************************************************************)
NewRef == Len(objects) + 1

Remote(i, w, n, p, tag) ==
    /\ objects' = Append(objects,
                     [status |-> "pending", steps |-> <<>>, rewards |-> <<>>,
                      weights |-> w, num_episodes |-> n, explore_prob |-> p,
                      worker |-> i, tag |-> tag])
    /\ worker' = [worker EXCEPT ![i].mailbox = Append(@, NewRef)]

\* the epoch label of the boundary the loop is at
Epoch == episode \div iters_per_epoch

(***************************************************************************)
(* main(), lines 153-193                                                   *)
(***************************************************************************)
MakeModel ==
    /\ pc = "init"
    /\ IF make_model(args.model)
       THEN pc' = "make_envs" /\ error' = error
       ELSE pc' = "error" /\ error' = "model"
    /\ UNCHANGED <<args, envs, model, iters_per_epoch, episode, results,
                   step_queue, reward_queue, loss_queue, steps, rewards,
                   checkpoints, sched, objects, worker, foldLog, inserted>>

CreateEnv ==
    /\ pc = "make_envs"
    /\ Len(envs) < args.remotes
    /\ envs' = Append(envs, Len(envs) + 1)
    /\ worker' = [worker EXCEPT ![Len(envs) + 1].wpc = "new"]
    /\ UNCHANGED <<args, pc, error, model, iters_per_epoch, episode, results,
                   step_queue, reward_queue, loss_queue, steps, rewards,
                   checkpoints, sched, objects, foldLog, inserted>>

\* the position of the training loop at loop variable e: range(max_episodes)
\* is exhausted when e reaches max_episodes
\* (variant: a loop that takes one more turn)
LoopEntryInclusive(e) == IF e <= args.max_episodes THEN "train" ELSE "testing"

LoopEntry(e) == IF e < args.max_episodes THEN "train" ELSE "testing"

\* (variant: a set-up that trains whatever --test says)
SetupAlwaysTrains ==
    /\ pc = "make_envs"
    /\ Len(envs) = args.remotes
    /\ model' = [net |-> 0, target |-> 0]
    /\ iters_per_epoch' = args.buffer_size \div args.batch_size
    /\ results' = <<>>
    /\ pc' = LoopEntry(0)
    /\ episode' = 0
    /\ UNCHANGED <<args, error, envs, step_queue, reward_queue, loss_queue,
                   steps, rewards, checkpoints, sched, objects, worker,
                   foldLog, inserted>>

Setup ==
    /\ pc = "make_envs"
    /\ Len(envs) = args.remotes
    /\ model' = [net |-> 0, target |-> 0]
    /\ IF args.is_test
       THEN /\ pc' = "testing"
            /\ UNCHANGED <<iters_per_epoch, results>>
       ELSE /\ iters_per_epoch' = args.buffer_size \div args.batch_size
            /\ results' = <<>>
            /\ pc' = LoopEntry(0)
    /\ episode' = 0
    /\ UNCHANGED <<args, error, envs, step_queue, reward_queue, loss_queue,
                   steps, rewards, checkpoints, sched, objects, worker,
                   foldLog, inserted>>

(***************************************************************************)
(* The training loop, lines 195-236                                        *)
(***************************************************************************)
\* model.train and, every update_iter steps, model.update
Trained(m) == [m EXCEPT !.net = @ + 1]
Updated(m, e) == IF e % args.update_iter = 0 THEN [m EXCEPT !.target = m.net] ELSE m

\* The loss model.train returns.  The program only stores losses, so the
\* model gives every training step a loss of its own: its number.
Loss(m) == m.net

\* (variant: the boundary at the last step of an epoch, not at its first)
IsBoundaryAtEnd(e) == (e + 1) % iters_per_epoch = 0

IsBoundary(e) == e % iters_per_epoch = 0

\* the order of the steps of an epoch boundary, lines 211-236
\* (variant: a boundary that dispatches first and collects its own batch)
BoundaryStepsSync == <<"save", "dispatch", "collect", "sched">>

BoundarySteps == <<"save", "collect", "dispatch", "sched">>

StepAfter(p) ==
    LET i == CHOOSE k \in 1..Len(BoundarySteps) : BoundarySteps[k] = p
    IN BoundarySteps[i + 1]

TrainStep ==
    /\ pc = "train"
    /\ loss_queue' = DequeAppend(loss_queue, Loss(Trained(model)), maxlen)
    /\ inserted' = [inserted EXCEPT !.loss = Append(@, Loss(Trained(model)))]
    /\ model' = Updated(Trained(model), episode)
    /\ IF IsBoundary(episode)
       THEN pc' = BoundarySteps[1] /\ episode' = episode
       ELSE pc' = LoopEntry(episode + 1) /\ episode' = episode + 1
    /\ UNCHANGED <<args, error, envs, iters_per_epoch, results, step_queue,
                   reward_queue, steps, rewards, checkpoints, sched, objects,
                   worker, foldLog>>

\* lines 211-213
SaveCheckpoint ==
    /\ pc = "save"
    /\ checkpoints' = Append(checkpoints, <<Epoch, model>>)
    /\ pc' = StepAfter("save")
    /\ UNCHANGED <<args, error, envs, model, iters_per_epoch, episode, results,
                   step_queue, reward_queue, loss_queue, steps, rewards, sched,
                   objects, worker, foldLog, inserted>>

\* lines 216-221: ray.get(results), the two extends, results = []
Collect ==
    /\ pc = "collect"
    /\ RayGetReady(results)
    /\ IF AnyFailed(results)
       THEN /\ pc' = "error"
            /\ error' = "collect"
            /\ UNCHANGED <<results, step_queue, reward_queue, foldLog,
                           inserted, objects>>
       ELSE /\ step_queue' = ExtendAll(step_queue, RayGet(results), 1, maxlen)
            /\ reward_queue' = ExtendAll(reward_queue, RayGet(results), 2, maxlen)
            /\ inserted' = [inserted EXCEPT
                              !.steps = @ \o Column(RayGet(results), 1),
                              !.rewards = @ \o Column(RayGet(results), 2)]
            /\ foldLog' = Append(foldLog, [at |-> Epoch, refs |-> results])
            /\ results' = <<>>
            /\ objects' = Released(results)
            /\ pc' = StepAfter("collect")
            /\ error' = error
    /\ UNCHANGED <<args, envs, model, iters_per_epoch, episode, loss_queue,
                   steps, rewards, checkpoints, sched, worker>>

\* (variant: a loop that trains between two of its turns)
DispatchOneTraining ==
    /\ pc = "dispatch"
    /\ Len(results) < Len(envs)
    /\ Remote(envs[Len(results) + 1], get_weights(model), args.rollouts,
              args.explore, Epoch)
    /\ results' = Append(results, NewRef)
    /\ model' = Trained(model)
    /\ pc' = IF Len(results) + 1 = Len(envs) THEN "sched" ELSE pc
    /\ UNCHANGED <<args, error, envs, iters_per_epoch, episode,
                   step_queue, reward_queue, loss_queue, steps, rewards,
                   checkpoints, sched, foldLog, inserted>>

\* lines 222-226: one turn of the loop over envs
DispatchOne ==
    /\ pc = "dispatch"
    /\ Len(results) < Len(envs)
    /\ Remote(envs[Len(results) + 1], get_weights(model), args.rollouts,
              args.explore, Epoch)
    /\ results' = Append(results, NewRef)
    /\ pc' = IF Len(results) + 1 = Len(envs) THEN StepAfter("dispatch") ELSE pc
    /\ UNCHANGED <<args, error, envs, model, iters_per_epoch, episode,
                   step_queue, reward_queue, loss_queue, steps, rewards,
                   checkpoints, sched, foldLog, inserted>>

\* lines 228-236: scheduler.step(), the clamp of the rate, the report
SchedStep ==
    /\ pc = "sched"
    /\ LET n == sched.last_epoch + 1
           e == IF n % StepSize = 0 THEN sched.lrExp + 1 ELSE sched.lrExp
       IN sched' = [last_epoch |-> n, lrExp |-> Min(e, LrFloorExp)]
    /\ pc' = LoopEntry(episode + 1)
    /\ episode' = episode + 1
    /\ UNCHANGED <<args, error, envs, model, iters_per_epoch, results,
                   step_queue, reward_queue, loss_queue, steps, rewards,
                   checkpoints, objects, worker, foldLog, inserted>>

(***************************************************************************)
(* The final evaluation, lines 238-252                                     *)
(***************************************************************************)
\* (variant: a final evaluation that keeps the pending list it finds)
BeginTestKeepPending ==
    /\ pc = "testing"
    /\ steps' = <<>>
    /\ rewards' = <<>>
    /\ pc' = "final_dispatch"
    /\ UNCHANGED <<args, error, envs, model, iters_per_epoch, episode, results,
                   step_queue, reward_queue, loss_queue, checkpoints, sched,
                   objects, worker, foldLog, inserted>>

BeginTest ==
    /\ pc = "testing"
    /\ results' = <<>>
    /\ objects' = Released(results)
    /\ steps' = <<>>
    /\ rewards' = <<>>
    /\ pc' = "final_dispatch"
    /\ UNCHANGED <<args, error, envs, model, iters_per_epoch, episode,
                   step_queue, reward_queue, loss_queue, checkpoints, sched,
                   worker, foldLog, inserted>>

\* the exploration probability the final evaluation passes (line 244)
\* (variant: a final evaluation that never explores)
FinalExploreGreedy == 0 * args.explore

FinalExplore == args.explore

FinalDispatchOne ==
    /\ pc = "final_dispatch"
    /\ Len(results) < Len(envs)
    /\ Remote(envs[Len(results) + 1], get_weights(model), args.rollouts,
              FinalExplore, -1)
    /\ results' = Append(results, NewRef)
    /\ pc' = IF Len(results) + 1 = Len(envs) THEN "final_collect" ELSE pc
    /\ UNCHANGED <<args, error, envs, model, iters_per_epoch, episode,
                   step_queue, reward_queue, loss_queue, steps, rewards,
                   checkpoints, sched, foldLog, inserted>>

\* lines 247-252
FinalCollect ==
    /\ pc = "final_collect"
    /\ RayGetReady(results)
    /\ IF AnyFailed(results)
       THEN /\ pc' = "error"
            /\ error' = "final_collect"
            /\ UNCHANGED <<steps, rewards>>
       ELSE /\ steps' = ListExtendAll(steps, RayGet(results), 1)
            /\ rewards' = ListExtendAll(rewards, RayGet(results), 2)
            /\ pc' = "done"
            /\ error' = error
    /\ UNCHANGED <<args, envs, model, iters_per_epoch, episode, results,
                   step_queue, reward_queue, loss_queue, checkpoints, sched,
                   objects, worker, foldLog, inserted>>

(***************************************************************************)
(* The actors: GymEnvironment, lines 16-72.  An actor runs its constructor *)
(* and then the calls of its mailbox, one at a time, in order.  An         *)
(* exception in a call fails that call's object ref and leaves the actor   *)
(* alive.  An actor that takes no further step is a hung simulator.        *)
(***************************************************************************)
\* The actors live as long as the driver: when main() returns or raises,
\* the process ends and the runtime started by ray.init() ends with it.
DriverAlive == pc \notin {"done", "error"}

\* __init__ with seed=None, lines 20-34
WorkerInit(i) ==
    /\ DriverAlive
    /\ worker[i].wpc = "new"
    /\ \E s \in SeedDraws :
          worker' = [worker EXCEPT ![i].seed = s, ![i].wpc = "idle"]
    /\ UNCHANGED <<args, objects>>
    /\ UNCHANGED orchVars

\* (variant: an actor that takes the newest call of its mailbox first)
RolloutBeginNewest(i) ==
    /\ DriverAlive
    /\ worker[i].wpc = "idle"
    /\ worker[i].mailbox # <<>>
    /\ LET ref == worker[i].mailbox[Len(worker[i].mailbox)]
       IN worker' = [worker EXCEPT ![i].mailbox = SubSeq(@, 1, Len(@) - 1),
                                   ![i].cur = ref,
                                   ![i].weights = objects[ref].weights,
                                   ![i].steps = <<>>,
                                   ![i].rewards = <<>>,
                                   ![i].step = 0,
                                   ![i].wpc = "running"]
    /\ UNCHANGED <<args, objects>>
    /\ UNCHANGED orchVars

\* rollout, lines 45-51: install the weights, start the first episode
RolloutBegin(i) ==
    /\ DriverAlive
    /\ worker[i].wpc = "idle"
    /\ worker[i].mailbox # <<>>
    /\ LET ref == Head(worker[i].mailbox)
       IN worker' = [worker EXCEPT ![i].mailbox = Tail(@),
                                   ![i].cur = ref,
                                   ![i].weights = objects[ref].weights,
                                   ![i].steps = <<>>,
                                   ![i].rewards = <<>>,
                                   ![i].step = 0,
                                   ![i].wpc = "running"]
    /\ UNCHANGED <<args, objects>>
    /\ UNCHANGED orchVars

\* The reward the environment returns with done.  The program only moves
\* rewards around, so the model gives every episode a reward of its own,
\* which names the call (ref), the episode of the call (j) and the number
\* of steps the episode took (n).
Reward(ref, j, n) == 100 * ref + 10 * j + n

\* what rollout holds after an episode that ended at step count n, reward r
\* (variant: the step entry put at the front of the list)
EpisodeStepsFront(w, n) == <<n - 1>> \o w.steps

EpisodeSteps(w, n) == Append(w.steps, n - 1)

EpisodeRewards(w, r) == Append(w.rewards, r)

\* rollout, lines 53-72: one step of the environment; when it ends the
\* episode, the two appends and either the next reset or the return
EnvStep(i) ==
    /\ DriverAlive
    /\ worker[i].wpc = "running"
    /\ LET w == worker[i]
           ref == w.cur
           n == w.step + 1
           r == Reward(ref, Len(w.rewards) + 1, n)
       IN \E done \in BOOLEAN :
            /\ n >= args.max_steps => done
            /\ IF ~done
               THEN /\ worker' = [worker EXCEPT ![i].step = n]
                    /\ objects' = objects
               ELSE LET ss == EpisodeSteps(w, n)
                        rs == EpisodeRewards(w, r)
                    IN IF Len(ss) < objects[ref].num_episodes
                       THEN /\ worker' = [worker EXCEPT ![i].steps = ss,
                                                        ![i].rewards = rs,
                                                        ![i].step = 0]
                            /\ objects' = objects
                       ELSE /\ worker' = [worker EXCEPT ![i].steps = <<>>,
                                                        ![i].rewards = <<>>,
                                                        ![i].step = 0,
                                                        ![i].cur = 0,
                                                        ![i].wpc = "idle"]
                            /\ objects' = [objects EXCEPT
                                   ![ref].status = "done",
                                   ![ref].steps = IF Held(ref) THEN ss ELSE <<>>,
                                   ![ref].rewards = IF Held(ref) THEN rs ELSE <<>>]
    /\ UNCHANGED args
    /\ UNCHANGED orchVars

\* an exception in env.step or in sample_action: it is not caught
EnvFail(i) ==
    /\ DriverAlive
    /\ worker[i].wpc = "running"
    /\ objects' = [objects EXCEPT ![worker[i].cur].status = "failed"]
    /\ worker' = [worker EXCEPT ![i].steps = <<>>,
                                ![i].rewards = <<>>,
                                ![i].step = 0,
                                ![i].cur = 0,
                                ![i].wpc = "idle"]
    /\ UNCHANGED args
    /\ UNCHANGED orchVars

Next ==
    \/ MakeModel
    \/ CreateEnv
    \/ Setup
    \/ TrainStep
    \/ SaveCheckpoint
    \/ Collect
    \/ DispatchOne
    \/ SchedStep
    \/ BeginTest
    \/ FinalDispatchOne
    \/ FinalCollect
    \/ \E i \in Workers : WorkerInit(i)
    \/ \E i \in Workers : RolloutBegin(i)
    \/ \E i \in Workers : EnvStep(i)
    \/ \E i \in Workers : EnvFail(i)

Spec == Init /\ [][Next]_vars

(***************************************************************************)
(* The runs in which no rollout raises and every process keeps running.    *)
(* main() is one process and every actor is a process of its own: each of  *)
(* them takes its next step as long as it has one, whatever the others do  *)
(* (weak fairness for each process).  An episode ends at the latest when   *)
(* the environment reaches max_steps, so a rollout that keeps stepping     *)
(* returns.                                                                *)
(***************************************************************************)
Orchestrator ==
    \/ MakeModel
    \/ CreateEnv
    \/ Setup
    \/ TrainStep
    \/ SaveCheckpoint
    \/ Collect
    \/ DispatchOne
    \/ SchedStep
    \/ BeginTest
    \/ FinalDispatchOne
    \/ FinalCollect

Actor(i) ==
    \/ WorkerInit(i)
    \/ RolloutBegin(i)
    \/ EnvStep(i)

NextNoFail ==
    \/ Orchestrator
    \/ \E i \in Workers : Actor(i)

SpecFair ==
    /\ Init
    /\ [][NextNoFail]_vars
    /\ WF_vars(Orchestrator)
    /\ \A i \in Workers : WF_vars(Actor(i))

(***************************************************************************)
(* The windows alone.  SpecWindow applies to the three deques the two      *)
(* operations the training loop applies to them: the append of a loss      *)
(* (line 198) and the extends of a collected batch (lines 216-218), with   *)
(* batches that every task has finished.  It runs the loop far enough for  *)
(* every window to overflow, which the bounds of Spec do not allow.        *)
(***************************************************************************)
WinRemotes == {1, 2, 15}
WinRollouts == {1, 3, 14}

ArgsW == [model: {"ddqn"}, remotes: WinRemotes, rollouts: WinRollouts,
          explore: {0}, max_episodes: {MaxWinIters}, buffer_size: {2},
          batch_size: {2}, update_iter: {2}, max_steps: MaxStepsChoices,
          is_test: {FALSE}]

InitW ==
    /\ args \in ArgsW
    /\ pc = "win_train"
    /\ Start

\* a batch of finished tasks: one pair of lists per actor, every sample
\* with a value of its own (its number in the order of insertion)
WinBatch ==
    LET base == Len(inserted.steps)
        K == args.rollouts
    IN [i \in 1..args.remotes |->
           <<[j \in 1..K |-> base + (i - 1) * K + j],
             [j \in 1..K |-> 0 - (base + (i - 1) * K + j)]>>]

\* line 198
WinTrain ==
    /\ pc = "win_train"
    /\ episode < args.max_episodes
    /\ loss_queue' = DequeAppend(loss_queue, Loss(Trained(model)), maxlen)
    /\ inserted' = [inserted EXCEPT !.loss = Append(@, Loss(Trained(model)))]
    /\ model' = Trained(model)
    /\ episode' = episode + 1
    /\ pc' = IF Len(inserted.steps) <= maxlen + args.rollouts * args.remotes
             THEN "win_fold" ELSE "win_train"
    /\ UNCHANGED <<args, error, envs, iters_per_epoch, results, step_queue,
                   reward_queue, steps, rewards, checkpoints, sched, objects,
                   worker, foldLog>>

\* lines 216-218
WinFold ==
    /\ pc = "win_fold"
    /\ step_queue' = ExtendAll(step_queue, WinBatch, 1, maxlen)
    /\ reward_queue' = ExtendAll(reward_queue, WinBatch, 2, maxlen)
    /\ inserted' = [inserted EXCEPT !.steps = @ \o Column(WinBatch, 1),
                                    !.rewards = @ \o Column(WinBatch, 2)]
    /\ pc' = "win_train"
    /\ UNCHANGED <<args, error, envs, model, iters_per_epoch, episode, results,
                   loss_queue, steps, rewards, checkpoints, sched, objects,
                   worker, foldLog>>

NextW == WinTrain \/ WinFold

SpecWindow == InitW /\ [][NextW]_vars

(***************************************************************************)
(* The scheduler alone.  SpecSched runs the training loop with the         *)
(* boundary reduced to its last step, scheduler.step() and the clamp       *)
(* (lines 228-230), for enough boundaries for StepLR to take the rate      *)
(* below the floor, and from a rate (--lr) that starts below it.           *)
(***************************************************************************)
LrateExps == {3, 6, 8}              \* --lr: 1e-3, 1e-6, 1e-8

ArgsS == [model: {"ddqn"}, remotes: {1}, rollouts: {1}, explore: {0},
          max_episodes: {MaxSchedIters}, buffer_size: BufferSizes,
          batch_size: BatchSizes, update_iter: UpdateIters,
          max_steps: MaxStepsChoices, is_test: {FALSE}, lrate: LrateExps]

InitS ==
    /\ args \in ArgsS
    /\ pc = "train"
    /\ error = "none"
    /\ envs = <<>>
    /\ model = [net |-> 0, target |-> 0]
    /\ iters_per_epoch = args.buffer_size \div args.batch_size
    /\ episode = 0
    /\ results = <<>>
    /\ step_queue = <<>>
    /\ reward_queue = <<>>
    /\ loss_queue = <<>>
    /\ steps = <<>>
    /\ rewards = <<>>
    /\ checkpoints = <<>>
    /\ sched = [last_epoch |-> 0, lrExp |-> args.lrate]
    /\ objects = <<>>
    /\ worker = [i \in Workers |-> NewWorker]
    /\ foldLog = <<>>
    /\ inserted = [steps |-> <<>>, rewards |-> <<>>, loss |-> <<>>]

\* lines 211-226, with no actor: nothing to collect, nothing to dispatch
SchedSkip ==
    /\ pc = "collect"
    /\ pc' = "sched"
    /\ UNCHANGED <<args, error, envs, model, iters_per_epoch, episode, results,
                   step_queue, reward_queue, loss_queue, steps, rewards,
                   checkpoints, sched, objects, worker, foldLog, inserted>>

NextS == TrainStep \/ SaveCheckpoint \/ SchedSkip \/ SchedStep

SpecSched == InitS /\ [][NextS]_vars

(***************************************************************************)
(* The claims.                                                             *)
(***************************************************************************)
LastN(s, n) == SubSeq(s, Len(s) - n + 1, Len(s))

\* the capacity the windows are meant to have
WindowCapacity ==
    IF args.rollouts * args.remotes > 200 THEN args.rollouts * args.remotes ELSE 200

IsWindowOf(q, hist) ==
    /\ Len(q) <= WindowCapacity
    /\ q = LastN(hist, Min(WindowCapacity, Len(hist)))

\* C6: each of the three windows (steps, rewards, loss) holds at most
\* C = max(200, rollouts * remotes) samples, and is always the last
\* min(C, n) of the n samples ever inserted into it, in insertion order:
\* a full window drops its earliest sample at every insertion.
C6_WindowIsFifo ==
    /\ IsWindowOf(step_queue, inserted.steps)
    /\ IsWindowOf(reward_queue, inserted.rewards)
    /\ IsWindowOf(loss_queue, inserted.loss)

\* C6's case: the loss window and the step window have both overflowed,
\* so each has lost its earliest samples
C6_Witness ==
    /\ Len(inserted.loss) > WindowCapacity
    /\ Len(loss_queue) = WindowCapacity
    /\ loss_queue[1] # inserted.loss[1]
    /\ Len(inserted.steps) > WindowCapacity
    /\ Len(step_queue) = WindowCapacity
    /\ step_queue[1] # inserted.steps[1]

Refs == 1..Len(objects)
RefsTagged(t) == {r \in Refs : objects[r].tag = t}
FinalRefs == RefsTagged(-1)

\* the refs every successful collect got, in the order they were folded
RECURSIVE FlatRefs(_)
FlatRefs(log) == IF log = <<>> THEN <<>> ELSE Head(log).refs \o FlatRefs(Tail(log))

\* the call and the episode a reward comes from (see Reward)
RewardRef(r) == r \div 100
RewardEpisode(r) == (r % 100) \div 10
RewardSteps(r) == r % 10

\* C1: what the collect of boundary E+1 folds into the step and reward
\* windows is exactly the batch dispatched at boundary E, which carries the
\* weights of boundary E (those checkpointed under label E); never a batch
\* dispatched at E+1 or at any other boundary.
C1_CollectLagsOneBoundary ==
    /\ \A k \in 1..Len(foldLog) :
          LET f == foldLog[k]
          IN /\ \A j \in 1..Len(f.refs) :
                   /\ objects[f.refs[j]].tag = f.at - 1
                   /\ \E c \in 1..Len(checkpoints) :
                         checkpoints[c] = <<f.at - 1, objects[f.refs[j]].weights>>
             /\ IF f.at = 0 THEN f.refs = <<>>
                ELSE {f.refs[j] : j \in 1..Len(f.refs)} = RefsTagged(f.at - 1)
    /\ Len(reward_queue) = args.rollouts * Len(FlatRefs(foldLog))
    /\ Len(step_queue) = Len(reward_queue)
    /\ \A k \in 1..Len(reward_queue) :
          /\ RewardRef(reward_queue[k]) = FlatRefs(foldLog)[((k - 1) \div args.rollouts) + 1]
          /\ step_queue[k] = RewardSteps(reward_queue[k]) - 1

\* C1's case: the third boundary has collected, so two batches (of
\* boundaries 0 and 1) are in the windows and the batch of boundary 2 is out
C1_Witness ==
    /\ Len(foldLog) = 3
    /\ foldLog[3].at = 2
    /\ Len(foldLog[3].refs) = 2
    /\ Len(results) = 2
    /\ Len(reward_queue) = 4
    /\ objects[results[1]].status = "done"

\* C2: the first epoch boundary has nothing to collect: its collect returns
\* without error and folds nothing, the step and reward windows stay empty
\* until the collect of the second boundary, and the first boundary still
\* dispatches a batch to every actor.
C2_FirstBoundaryFoldsNothing ==
    /\ Len(foldLog) < 2 => step_queue = <<>> /\ reward_queue = <<>>
    /\ Len(foldLog) >= 1 => foldLog[1].at = 0 /\ foldLog[1].refs = <<>>
    /\ error = "collect" => Len(foldLog) >= 1
    /\ sched.last_epoch >= 1 => Cardinality(RefsTagged(0)) = args.remotes

\* C2's case: the second boundary is about to collect a finished batch of
\* two rollouts, and the windows are still empty
C2_Witness ==
    /\ pc = "collect"
    /\ Len(foldLog) = 1
    /\ Len(results) = 2
    /\ \A i \in 1..Len(results) : objects[results[i]].status = "done"
    /\ step_queue = <<>>
    /\ reward_queue = <<>>

\* C3 as claimed: every rollout of the final evaluation is dispatched with
\* exploration probability zero, whatever --explore is.
C3_FinalExploreIsZero ==
    \A r \in FinalRefs : objects[r].explore_prob = 0

\* C3 as amended: every rollout of the final evaluation is dispatched, one
\* to each actor, with the configured exploration probability (--explore),
\* the value the epoch boundaries pass too; it is zero when --explore is.
C3_FinalExploreIsConfigured ==
    /\ \A r \in FinalRefs : objects[r].explore_prob = args.explore
    /\ \A r \in Refs : objects[r].explore_prob = args.explore
    /\ pc \in {"final_collect", "done"} =>
          \A i \in 1..Len(envs) : \E r \in FinalRefs : objects[r].worker = envs[i]

\* C3's case: a final evaluation that ran to the end with --explore 0.5
C3_Witness ==
    /\ pc = "done"
    /\ args.explore # 0
    /\ Cardinality(FinalRefs) = 2
    /\ \A r \in FinalRefs : objects[r].explore_prob # 0

\* C4: the final evaluation issues exactly one rollout of --rollouts
\* episodes per actor, and once collected the two aggregated lists have
\* remotes * rollouts entries: the results of the actors one after the
\* other, in the order of the pool.
C4_FinalAggregate ==
    /\ pc \in {"final_collect", "done"} =>
          /\ Cardinality(FinalRefs) = args.remotes
          /\ Len(results) = args.remotes
          /\ \A i \in 1..args.remotes :
                /\ results[i] \in FinalRefs
                /\ objects[results[i]].worker = envs[i]
                /\ objects[results[i]].num_episodes = args.rollouts
    /\ pc = "done" =>
          /\ Len(steps) = args.remotes * args.rollouts
          /\ Len(rewards) = args.remotes * args.rollouts
          /\ \A i \in 1..args.remotes : \A j \in 1..args.rollouts :
                LET k == (i - 1) * args.rollouts + j
                IN /\ steps[k] = objects[results[i]].steps[j]
                   /\ rewards[k] = objects[results[i]].rewards[j]
                   /\ RewardRef(rewards[k]) = results[i]
                   /\ RewardEpisode(rewards[k]) = j

\* C4's case: two actors, two episodes each, collected
C4_Witness ==
    /\ pc = "done"
    /\ args.remotes = 2
    /\ args.rollouts = 2
    /\ Len(steps) = 4
    /\ steps[1] # steps[3]

\* C5: with a model name that is not registered, main() fails in make_model
\* before it creates an actor: no actor, training step, checkpoint or
\* dispatch exists in any state of the run.
C5_UnknownModelFailsFast ==
    args.model \notin Registry =>
        /\ pc \in {"init", "error"}
        /\ pc = "error" => error = "model"
        /\ envs = <<>>
        /\ \A i \in Workers : worker[i].wpc = "none"
        /\ model.net = 0
        /\ loss_queue = <<>>
        /\ checkpoints = <<>>
        /\ objects = <<>>

\* C5's case: the run with the unknown name has failed
C5_Witness ==
    /\ args.model \notin Registry
    /\ pc = "error"
    /\ error = "model"

\* C7: a rollout of K >= 1 episodes that all end returns two lists of
\* exactly K entries, and entry j of both is that of the j-th episode: the
\* reward is the one the j-th episode ended with, the step entry is the
\* number of steps of that same episode minus one.
C7_RolloutShape ==
    \A r \in Refs :
        (objects[r].status = "done" /\ Held(r)) =>
            /\ objects[r].num_episodes >= 1
            /\ Len(objects[r].steps) = objects[r].num_episodes
            /\ Len(objects[r].rewards) = objects[r].num_episodes
            /\ \A j \in 1..objects[r].num_episodes :
                  /\ RewardRef(objects[r].rewards[j]) = r
                  /\ RewardEpisode(objects[r].rewards[j]) = j
                  /\ objects[r].steps[j] = RewardSteps(objects[r].rewards[j]) - 1

\* C7's case: a finished rollout of two episodes of different lengths
C7_Witness ==
    \E r \in Refs :
        /\ objects[r].status = "done"
        /\ Held(r)
        /\ objects[r].num_episodes = 2
        /\ objects[r].steps = <<1, 0>>

\* C8: all the rollouts of one dispatch (one epoch boundary, or the final
\* evaluation) carry the same weights, one rollout per actor: nothing
\* trains between the first and the last get_weights of the loop.
C8_SameSnapshot ==
    /\ \A r1, r2 \in Refs :
          objects[r1].tag = objects[r2].tag =>
              /\ objects[r1].weights = objects[r2].weights
              /\ r1 # r2 => objects[r1].worker # objects[r2].worker
    /\ \A r \in Refs :
          objects[r].tag >= 0 =>
              \E c \in 1..Len(checkpoints) :
                  checkpoints[c] = <<objects[r].tag, objects[r].weights>>

\* C8's case: the second boundary has dispatched to two actors, and its
\* weights are not those of the first boundary
C8_Witness ==
    \E r1, r2, r0 \in Refs :
        /\ r1 # r2
        /\ objects[r1].tag = 1
        /\ objects[r2].tag = 1
        /\ objects[r0].tag = 0
        /\ objects[r0].weights # objects[r1].weights

\* a ref of the pending list whose task raised
FailedPending == \E i \in 1..Len(results) : objects[results[i]].status = "failed"

\* C9: a rollout that fails is not run again; the failure of a rollout of
\* the batch of boundary E surfaces at the collect of boundary E+1, where
\* main() ends with the exception: nothing of the batch enters the windows
\* (the results of the actors that succeeded included), nothing is
\* dispatched, the final evaluation is never reached.  Until that collect
\* the training steps run as if nothing had failed.
C9_FailureStep ==
    /\ (pc = "collect" /\ FailedPending) =>
          \A i \in 1..Len(results) : objects[results[i]].tag = Epoch - 1
    /\ (pc = "collect" /\ FailedPending /\ pc' # pc) =>
          /\ pc' = "error"
          /\ error' = "collect"
          /\ step_queue' = step_queue
          /\ reward_queue' = reward_queue
          /\ inserted' = inserted
          /\ Len(objects') = Len(objects)
    /\ \A r \in Refs :
          objects[r].status = "failed" =>
              /\ objects'[r].status = "failed"
              /\ \A i \in Workers :
                    /\ worker'[i].cur # r
                    /\ \A k \in 1..Len(worker'[i].mailbox) : worker'[i].mailbox[k] # r
    /\ pc = "error" => pc' = "error" /\ Len(objects') = Len(objects)
    /\ error = "collect" => pc = "error" /\ FinalRefs = {}
    /\ (pc = "train" /\ FailedPending) => ENABLED TrainStep

C9_FailurePropagates == [][C9_FailureStep]_vars

\* C9's case: main() has ended at the collect of the second boundary, two
\* training steps after the first; one rollout of the batch failed, the
\* other succeeded, and the windows are empty
C9_Witness ==
    /\ pc = "error"
    /\ error = "collect"
    /\ iters_per_epoch = 2
    /\ Epoch = 1
    /\ model.net = 3
    /\ \E i, j \in 1..Len(results) :
          /\ objects[results[i]].status = "failed"
          /\ objects[results[j]].status = "done"
          /\ objects[results[j]].steps # <<>>
    /\ step_queue = <<>>

\* C10: the seeds that two different actors drew are different.
C10_SeedsDistinct ==
    \A i, j \in Workers :
        (i # j /\ worker[i].seed # -1 /\ worker[j].seed # -1) =>
            worker[i].seed # worker[j].seed
\* the final evaluation as it stands when main() returns
C11_DoneShape ==
    pc = "done" =>
        /\ error = "none"
        /\ model.net = (IF args.is_test THEN 0 ELSE args.max_episodes)
        /\ Len(inserted.loss) = model.net
        /\ Cardinality(FinalRefs) = args.remotes
        /\ \A r \in FinalRefs :
              /\ objects[r].status = "done"
              /\ objects[r].weights = model
              /\ \E i \in 1..Len(results) : results[i] = r
        /\ Len(results) = args.remotes
        /\ Len(steps) = args.remotes * args.rollouts
        /\ Len(rewards) = args.remotes * args.rollouts

\* the pool once it is built: the same actors in every step
C11_PoolFixed ==
    /\ Len(envs) <= args.remotes
    /\ \A i \in 1..Len(envs) : envs[i] = i
    /\ \A i \in Workers : (worker[i].wpc # "none") <=> (i <= Len(envs))
    /\ pc \notin {"init", "make_envs", "error"} =>
          /\ Len(envs) = args.remotes
          /\ envs' = envs
          /\ \A i \in Workers : (worker'[i].wpc = "none") <=> (worker[i].wpc = "none")

\* C11: when no rollout raises and every rollout returns, main() with a
\* registered model name ends (DONE): it has then run exactly max_episodes
\* training steps (none in test mode) and, after the last of them, one
\* final dispatch to every actor and one final collect; from the end of
\* the set-up to DONE the pool is the same `remotes` actors.
C11_Terminates ==
    /\ []C11_DoneShape
    /\ [][C11_PoolFixed]_vars
    /\ (args.model \in Registry) ~> (pc = "done")

\* C11's case: a training run of three steps and two boundaries has ended
C11_Witness ==
    /\ pc = "done"
    /\ ~args.is_test
    /\ args.max_episodes = 3
    /\ model.net = 3
    /\ Len(checkpoints) = 2
    /\ args.remotes = 2
    /\ Cardinality(FinalRefs) = 2
\* a ref of the pending list whose task has not finished
UnfinishedPending == \E i \in 1..Len(results) : objects[results[i]].status = "pending"

\* main() waits: it is at a ray.get and a task of the list is still
\* running or queued, none having raised
Waiting ==
    /\ pc \in {"collect", "final_collect"}
    /\ UnfinishedPending
    /\ ~FailedPending

\* C12: main() waits for the actors at a collect and nowhere else.  A
\* training step, a checkpoint save, a dispatch (of a boundary or final)
\* and the scheduler step can always be taken, whatever the actors are
\* doing.  While a rollout of the batch of boundary E has not finished,
\* main() sits at the collect of boundary E+1: it cannot take a step, and
\* whatever happens meanwhile leaves its state as it is.
C12_Step ==
    /\ pc = "train" => ENABLED TrainStep
    /\ pc = "save" => ENABLED SaveCheckpoint
    /\ pc = "dispatch" => ENABLED DispatchOne
    /\ pc = "sched" => ENABLED SchedStep
    /\ pc = "testing" => ENABLED BeginTest
    /\ pc = "final_dispatch" => ENABLED FinalDispatchOne
    /\ (pc = "collect" /\ ~UnfinishedPending) => ENABLED Collect
    /\ (DriverAlive /\ ~ENABLED Orchestrator) => Waiting
    /\ Waiting =>
          /\ ~ENABLED Orchestrator
          /\ orchVars' = orchVars
          /\ pc = "collect" =>
                /\ Epoch >= 1
                /\ \A i \in 1..Len(results) : objects[results[i]].tag = Epoch - 1

C12_BlocksOnlyAtCollect == [][C12_Step]_vars

\* C12's case: main() waits at the collect of the second boundary, two
\* training steps after the first; the first boundary dispatched to an
\* actor that had not even run its constructor, and still has not, while
\* the other actor has returned
C12_Witness ==
    /\ pc = "collect"
    /\ iters_per_epoch = 2
    /\ Epoch = 1
    /\ model.net = 3
    /\ Waiting
    /\ \E i, j \in 1..Len(results) :
          /\ worker[objects[results[i]].worker].wpc = "new"
          /\ worker[objects[results[i]].worker].mailbox = <<results[i]>>
          /\ objects[results[j]].status = "done"
\* C13: the trainer's weights change in a training step and in no other
\* step: a change is one model.train, with the update of the target when
\* it is due.  The save, the collect, the dispatches, the scheduler step,
\* the final evaluation and every step of an actor leave them as they are;
\* so through a whole boundary the weights are those just checkpointed,
\* every rollout dispatched at boundary E carries exactly the weights
\* saved under label E, and every final rollout the weights main() ends with.
C13_Step ==
    /\ model' # model =>
          /\ pc = "train"
          /\ model'.net = model.net + 1
          /\ model'.target \in {model.target, model'.net}
          /\ worker' = worker
          /\ objects' = objects
    /\ pc \in {"collect", "dispatch", "sched"} =>
          /\ checkpoints # <<>>
          /\ checkpoints[Len(checkpoints)] = <<Epoch, model>>
    /\ \A r \in Refs :
          objects[r].tag >= 0 =>
              /\ objects[r].tag + 1 <= Len(checkpoints)
              /\ checkpoints[objects[r].tag + 1] = <<objects[r].tag, objects[r].weights>>
    /\ \A r \in FinalRefs : objects[r].weights = model

C13_OnlyTrainingChangesWeights == [][C13_Step]_vars

\* C13's case: the second boundary has saved, collected and dispatched to
\* two actors; the weights are still those it saved, and not those of the
\* first boundary
C13_Witness ==
    /\ pc = "sched"
    /\ Epoch = 1
    /\ Len(results) = 2
    /\ Len(checkpoints) = 2
    /\ checkpoints[2] = <<1, model>>
    /\ checkpoints[1][2] # model
    /\ \A i \in 1..Len(results) : objects[results[i]].weights = model
    /\ \E i \in Workers : worker[i].wpc = "running"
\* the call r has been taken up by its actor
Started(r) == objects[r].status # "pending" \/ \E i \in Workers : worker[i].cur = r

\* C14: an actor runs the calls sent to it one at a time, in the order
\* they were sent, each from its first episode to its last under the
\* weights that call carries: the weights of the replica change only when
\* a call starts.  A call is not taken up before every earlier call to the
\* same actor has finished, so a final rollout sent while the batch of the
\* last boundary still runs waits for it.  A step of an actor changes that
\* actor and the result of the call it runs, nothing else: no other
\* actor, no other call, nothing of main().
C14_Step ==
    /\ \A i \in Workers :
          /\ worker[i].wpc = "running" =>
                /\ worker[i].cur \in Refs
                /\ objects[worker[i].cur].worker = i
                /\ objects[worker[i].cur].status = "pending"
                /\ worker[i].weights = objects[worker[i].cur].weights
                /\ Len(worker[i].rewards) < objects[worker[i].cur].num_episodes
                /\ Len(worker[i].steps) = Len(worker[i].rewards)
                /\ \A k \in 1..Len(worker[i].rewards) :
                      /\ RewardRef(worker[i].rewards[k]) = worker[i].cur
                      /\ RewardEpisode(worker[i].rewards[k]) = k
          /\ \A k \in 1..Len(worker[i].mailbox) :
                /\ objects[worker[i].mailbox[k]].worker = i
                /\ ~Started(worker[i].mailbox[k])
                /\ k > 1 => worker[i].mailbox[k - 1] < worker[i].mailbox[k]
          /\ worker'[i].weights # worker[i].weights =>
                /\ worker[i].wpc = "idle"
                /\ worker'[i].wpc = "running"
                /\ worker'[i].cur = Head(worker[i].mailbox)
          /\ (worker[i].wpc = "running" /\ worker'[i].wpc = "running") =>
                worker'[i].cur = worker[i].cur
    /\ \A r1, r2 \in Refs :
          (r1 < r2 /\ objects[r1].worker = objects[r2].worker /\ Started(r2)) =>
              objects[r1].status # "pending"
    /\ orchVars' = orchVars =>
          \E i \in Workers :
              /\ \A j \in Workers : j # i => worker'[j] = worker[j]
              /\ Len(objects') = Len(objects)
              /\ \A r \in Refs : objects'[r] # objects[r] => r = worker[i].cur

C14_RolloutsDoNotInterleave == [][C14_Step]_vars

\* C14's case: the final rollout was sent to an actor that is still in
\* the second episode of its rollout of the last boundary; the final call
\* carries other weights and waits in the mailbox
C14_Witness ==
    /\ pc = "final_collect"
    /\ \E i \in Workers :
          /\ worker[i].wpc = "running"
          /\ objects[worker[i].cur].tag >= 0
          /\ Len(worker[i].rewards) = 1
          /\ Len(worker[i].mailbox) = 1
          /\ objects[worker[i].mailbox[1]].tag = -1
          /\ objects[worker[i].mailbox[1]].weights # worker[i].weights
\* the number of multiples of iters_per_epoch among 0 .. n-1
BoundariesBefore(n) == (n + iters_per_epoch - 1) \div iters_per_epoch

\* C15: with iters_per_epoch = buffer_size div batch_size >= 1, the loop
\* enters a boundary right after the training step of every index that is
\* a multiple of iters_per_epoch, the very first step (index 0) included,
\* and after no other step.  The c-th checkpoint of the run is saved under
\* label c-1, which is that index div iters_per_epoch, and holds the
\* weights after (c-1) * iters_per_epoch + 1 training steps: the labels
\* are 0, 1, 2, ..., none saved twice.
C15_BoundaryEveryEpoch ==
    iters_per_epoch >= 1 =>
        /\ iters_per_epoch = args.buffer_size \div args.batch_size
        /\ \A c \in 1..Len(checkpoints) :
              /\ checkpoints[c][1] = c - 1
              /\ checkpoints[c][2].net = (c - 1) * iters_per_epoch + 1
        /\ pc \in {"save", "collect", "dispatch", "sched"} =>
              /\ episode % iters_per_epoch = 0
              /\ model.net = episode + 1
              /\ Len(checkpoints) = (episode \div iters_per_epoch)
                                       + (IF pc = "save" THEN 0 ELSE 1)
        /\ pc = "train" =>
              /\ model.net = episode
              /\ Len(checkpoints) = BoundariesBefore(episode)
        /\ pc \in {"testing", "final_dispatch", "final_collect", "done"} =>
              /\ model.net = args.max_episodes
              /\ Len(checkpoints) = BoundariesBefore(args.max_episodes)

\* C15's case: epochs of two steps; the second boundary, after the third
\* training step (index 2), has saved under label 1
C15_Witness ==
    /\ iters_per_epoch = 2
    /\ pc = "collect"
    /\ episode = 2
    /\ Len(checkpoints) = 2
    /\ checkpoints[1] = <<0, [net |-> 1, target |-> 1]>>
    /\ checkpoints[2] = <<1, [net |-> 3, target |-> 3]>>
\* the calls sent to actor i that no collect has got
Uncollected(i) ==
    {r \in Refs : /\ objects[r].worker = i
                  /\ \A k \in 1..Len(FlatRefs(foldLog)) : FlatRefs(foldLog)[k] # r}

\* the calls actor i has still to finish
Unfinished(i) == Len(worker[i].mailbox) + (IF worker[i].wpc = "running" THEN 1 ELSE 0)

\* C16: a boundary takes its steps in the order save, collect, dispatch,
\* scheduler step, each once.  So between the steps of the training loop
\* the pending list is empty as long as no boundary has dispatched, and
\* otherwise holds exactly one ref per actor, in the order of the pool,
\* all issued at the latest boundary that dispatched; while the loop of
\* the dispatch runs, the list is the part of the new batch issued so far.
\* All through the training loop an actor has at most one call that no
\* collect has got, and at most one call to finish.
C16_Step ==
    /\ (pc = "train" /\ pc' # pc) => pc' \in {"save", "testing"}
    /\ (pc = "save" /\ pc' # pc) =>
          /\ pc' = "collect"
          /\ Len(checkpoints') = Len(checkpoints) + 1
    /\ (pc = "collect" /\ pc' # pc) =>
          /\ pc' \in {"dispatch", "error"}
          /\ pc' = "dispatch" => Len(foldLog') = Len(foldLog) + 1
    /\ (pc = "dispatch" /\ pc' # pc) =>
          /\ pc' = "sched"
          /\ Len(results') = args.remotes
    /\ (pc = "sched" /\ pc' # pc) =>
          /\ pc' \in {"train", "testing"}
          /\ sched'.last_epoch = sched.last_epoch + 1
    /\ pc \in {"save", "collect", "dispatch", "sched"} =>
          /\ Len(checkpoints) = sched.last_epoch + (IF pc = "save" THEN 0 ELSE 1)
          /\ Len(foldLog) = sched.last_epoch + (IF pc \in {"save", "collect"} THEN 0 ELSE 1)
    /\ pc \in {"train", "save", "collect", "sched"} =>
          \/ /\ Len(foldLog) = 0
             /\ results = <<>>
             /\ objects = <<>>
          \/ /\ Len(foldLog) >= 1
             /\ Len(results) = args.remotes
             /\ \A i \in 1..Len(results) :
                   /\ objects[results[i]].tag = Len(foldLog) - 1
                   /\ objects[results[i]].worker = envs[i]
             /\ \A r \in Refs : objects[r].tag <= Len(foldLog) - 1
    /\ pc = "dispatch" =>
          /\ Len(results) < args.remotes
          /\ \A i \in 1..Len(results) :
                /\ objects[results[i]].tag = Len(foldLog) - 1
                /\ objects[results[i]].worker = envs[i]
    /\ pc \in {"train", "save", "collect", "dispatch", "sched"} =>
          \A i \in Workers :
              /\ Cardinality(Uncollected(i)) <= 1
              /\ Unfinished(i) <= 1

C16_BoundaryOrder == [][C16_Step]_vars

\* C16's case: the second boundary has saved, collected the batch of the
\* first and dispatched its own to both actors; one of them has started
C16_Witness ==
    /\ pc = "sched"
    /\ sched.last_epoch = 1
    /\ Len(foldLog) = 2
    /\ Len(foldLog[2].refs) = 2
    /\ Len(results) = 2
    /\ \A i \in 1..Len(results) : objects[results[i]].tag = 1
    /\ \A i \in Workers : Cardinality(Uncollected(i)) = 1
    /\ \E i \in Workers : Unfinished(i) = 0
\* the exponent StepLR alone would have given the rate after n steps
Decayed(n) == args.lrate + (n \div StepSize)

\* C17: every boundary advances the scheduler by one step and then clamps
\* the rate to the floor 1e-7 (the rate is 10^-lrExp), and nothing else
\* changes the rate: once a boundary has completed, the rate is the one
\* StepLR gives or the floor, whichever is larger, so it is at least the
\* floor after every boundary and in every training step that follows one.
C17_Step ==
    /\ sched' # sched =>
          /\ pc = "sched"
          /\ sched'.last_epoch = sched.last_epoch + 1
    /\ pc = "train" => sched.last_epoch = BoundariesBefore(episode)
    /\ sched.last_epoch >= 1 =>
          /\ sched.lrExp <= LrFloorExp
          /\ sched.lrExp = (IF Decayed(sched.last_epoch) > LrFloorExp
                            THEN LrFloorExp ELSE Decayed(sched.last_epoch))

C17_RateAboveFloor == [][C17_Step]_vars

\* C17's case: thirty boundaries from the rate 1e-3; StepLR alone would
\* have taken the rate to 1e-8, the training step runs with 1e-7
C17_Witness ==
    /\ args.lrate = 3
    /\ pc = "train"
    /\ sched.last_epoch = 30
    /\ Decayed(sched.last_epoch) > LrFloorExp
    /\ sched.lrExp = LrFloorExp
\* the training loop has ended and the final evaluation has begun
AfterLoop ==
    /\ ~args.is_test
    /\ \/ pc \in {"final_dispatch", "final_collect", "done"}
       \/ pc = "error" /\ error = "final_collect"

\* the batch of the last boundary of the run
LastBatch == RefsTagged(Len(checkpoints) - 1)

\* C18: the batch dispatched at the last boundary is never collected.  The
\* final evaluation drops its refs unread and puts its own into the
\* pending list; nothing of that batch is in the windows, which no step
\* changes once the loop has ended, nor in the lists of the final
\* evaluation, which hold the results of the final rollouts only; and
\* main() does not end with the exception of a rollout of that batch:
\* when it ends with one, a final rollout raised it.
C18_Step ==
    /\ (pc = "testing" /\ pc' # pc) => results' = <<>>
    /\ (pc = "testing" \/ AfterLoop) =>
          /\ foldLog' = foldLog
          /\ step_queue' = step_queue
          /\ reward_queue' = reward_queue
    /\ AfterLoop =>
          /\ Cardinality(LastBatch) = args.remotes
          /\ \A r \in LastBatch :
                /\ \A k \in 1..Len(foldLog) : \A j \in 1..Len(foldLog[k].refs) :
                      foldLog[k].refs[j] # r
                /\ \A i \in 1..Len(results) : results[i] # r
                /\ \A k \in 1..Len(reward_queue) : RewardRef(reward_queue[k]) # r
                /\ \A k \in 1..Len(rewards) : RewardRef(rewards[k]) # r
          /\ \A i \in 1..Len(results) : objects[results[i]].tag = -1
          /\ \A k \in 1..Len(rewards) : RewardRef(rewards[k]) \in FinalRefs
          /\ pc = "error" => \E r \in FinalRefs : objects[r].status = "failed"

C18_LastBatchDropped == [][C18_Step]_vars

\* C18's case: main() has returned (DONE) although one rollout of the
\* batch of the last boundary raised; the other one of that batch returned
C18_Witness ==
    /\ pc = "done"
    /\ ~args.is_test
    /\ error = "none"
    /\ Len(checkpoints) = 2
    /\ \E r1, r2 \in LastBatch :
          /\ objects[r1].status = "failed"
          /\ objects[r2].status = "done"
    /\ Len(rewards) = 2 * args.rollouts
    /\ Len(reward_queue) = 2 * args.rollouts
\* the number of samples of one batch
BatchSize == args.remotes * args.rollouts

\* C19: the step window and the reward window always hold the same number
\* of samples; as long as the windows are below their capacity C that
\* number is a multiple of `rollouts`; a whole batch fits in a window
\* (remotes * rollouts <= C); and once a batch has been folded, the newest
\* remotes * rollouts entries of each window are that batch, actor after
\* actor in the order of the pool, each actor's episodes in their order.
\* (Sample number n of a run has step value n and reward value -n.)
C19_WindowsAligned ==
    /\ Len(step_queue) = Len(reward_queue)
    /\ BatchSize <= WindowCapacity
    /\ Len(step_queue) < WindowCapacity => Len(step_queue) % args.rollouts = 0
    /\ Len(inserted.steps) > 0 =>
          /\ Len(step_queue) >= BatchSize
          /\ Len(inserted.steps) % BatchSize = 0
          /\ \A i \in 1..args.remotes : \A j \in 1..args.rollouts :
                LET k == (i - 1) * args.rollouts + j
                    n == Len(inserted.steps) - BatchSize + k
                IN /\ LastN(step_queue, BatchSize)[k] = n
                   /\ LastN(reward_queue, BatchSize)[k] = 0 - n

\* C19's case: batches of two actors and three episodes have filled the
\* windows to their capacity of 200, which is not a multiple of three
C19_Witness ==
    /\ args.remotes = 2
    /\ args.rollouts = 3
    /\ Len(step_queue) = WindowCapacity
    /\ Len(step_queue) % args.rollouts # 0
    /\ Len(inserted.steps) > WindowCapacity
    /\ step_queue[Len(step_queue)] = Len(inserted.steps)
\* C20: with --test, main() goes from the set-up straight to the final
\* evaluation: it never is at a step of the training loop, never trains
\* or updates the model, saves no checkpoint, leaves the scheduler and the
\* windows as they were, and sends no rollout other than the final ones:
\* at most one per actor, and when main() returns exactly one per actor,
\* all collected.
C20_TestOnly ==
    args.is_test =>
        /\ pc \in {"init", "make_envs", "testing", "final_dispatch",
                    "final_collect", "done", "error"}
        /\ model = [net |-> 0, target |-> 0]
        /\ loss_queue = <<>>
        /\ step_queue = <<>>
        /\ reward_queue = <<>>
        /\ checkpoints = <<>>
        /\ foldLog = <<>>
        /\ sched = [last_epoch |-> 0, lrExp |-> LrateExp]
        /\ iters_per_epoch = 0
        /\ Refs = FinalRefs
        /\ Len(objects) <= args.remotes
        /\ \A r1, r2 \in Refs : r1 # r2 => objects[r1].worker # objects[r2].worker
        /\ pc \in {"final_collect", "done"} => Len(objects) = args.remotes
        /\ pc = "done" =>
              /\ \A r \in Refs :
                    /\ objects[r].status = "done"
                    /\ \E i \in 1..Len(results) : results[i] = r
              /\ Len(rewards) = args.remotes * args.rollouts
              /\ \A k \in 1..Len(rewards) : RewardRef(rewards[k]) \in Refs

\* C20's case: a run with --test and two actors has returned
C20_Witness ==
    /\ args.is_test
    /\ pc = "done"
    /\ args.remotes = 2
    /\ Len(objects) = 2
    /\ Len(rewards) = 2 * args.rollouts
    /\ args.max_episodes > 1

====
